---- MODULE Spec2Model ----
(***************************************************************************)
(* Verification model of the product-management backend's optimistic-      *)
(* concurrency layer: ProductsService (products.service.ts) over the       *)
(* TypeORM repository of the Product entity.                               *)
(*                                                                         *)
(* The products table is `store`.  Every request handler is an async       *)
(* function; it is split at its awaits into the steps at which it touches  *)
(* the database.  One handler at a time is followed through its awaits     *)
(* (`req`); while it is suspended between its read and its write, other    *)
(* requests run from their read to their write without interruption.       *)
(* Reads commute, so this covers every interleaving of two handlers.       *)
(*                                                                         *)
(* Repository semantics used (TypeORM Repository.save / remove):           *)
(*   - save(entity) addresses the row whose primary key is entity.id;      *)
(*     it inserts the row when there is none, otherwise it updates the     *)
(*     columns whose value differs from the stored row;                    *)
(*   - when no column differs no UPDATE is issued at all;                  *)
(*   - an UPDATE sets version = version + 1 (@VersionColumn) and           *)
(*     updatedAt = CURRENT_TIMESTAMP (@UpdateDateColumn) in the same       *)
(*     statement; an INSERT sets version = 1 and updatedAt = now;          *)
(*   - save carries no "WHERE version = ?" predicate.                      *)
(***************************************************************************)
EXTENDS Integers, Sequences, FiniteSets, TLC

(* ------------------------------ bounds --------------------------------- *)
\* largest value of the database clock (CURRENT_TIMESTAMP, in ms)
MaxTime == 2
\* number of requests served
MaxCalls == 3

\* largest revision a row can reach: every request bumps by at most one
MaxVersion == MaxCalls

\* product ids (uuid values) that can ever exist
Ids == {1, 2}
\* values of a business field
Vals == {1, 2}

\* `undefined` of an optional DTO property
Undefined == -1

(* --------------------------- data shapes -------------------------------- *)
\* a row of the products table; name and quantity stand for the business
\* columns, version and updatedAt are the ORM-managed columns
NoRow == [exists |-> FALSE, name |-> 0, quantity |-> 0, version |-> 0, updatedAt |-> 0]

\* an in-memory Product entity held by a handler between two awaits
NoEntity == [id |-> 0, name |-> 0, quantity |-> 0, version |-> 0, updatedAt |-> 0]

\* request bodies admitted by the ValidationPipe for PUT /products/:id
UpdateProductDto ==
    [id : {Undefined}, name : Vals \cup {Undefined}, quantity : Vals \cup {Undefined},
     version : {Undefined}, lastModified : {Undefined}]

\* request bodies admitted for PUT /products/:id/versioned
UpdateProductVersionedDto ==
    [id : Ids \cup {Undefined}, name : Vals \cup {Undefined}, quantity : Vals \cup {Undefined},
     version : (0..MaxVersion) \cup {Undefined},
     lastModified : (0..MaxTime) \cup {Undefined}]

\* request bodies admitted for POST /products
CreateProductDto == [name : Vals, quantity : Vals]

\* the state of a handler that is not running
Idle == [pc |-> "idle", op |-> "none", id |-> 0, control |-> {}, believed |-> Undefined,
         message |-> "", entity |-> NoEntity]

VARIABLES
    store,      \* the products table: id -> row
    used,       \* ids that have ever been a primary key (uuids are not reused)
    now,        \* the database clock
    req,        \* the handler suspended at an await: its position and locals
    response,   \* the outcome of the request that completed last
    calls,      \* requests received so far
    accepted,   \* per row: update calls accepted and saved onto it since its INSERT
    won,        \* per row and revision r: persisted writes that were accepted
                \* because the caller's believed revision r matched
    bulk,       \* the bulkUpdateWithConflictDetection call in progress
    client,     \* the frontend's DataConsistencyService call in progress
    ui,         \* the dashboard: the displayed list and the optimistic change
    api,        \* the frontend's ApiClient: its cache and its pending GET
    svc,        \* the DataConsistencyService singleton and the interval timers
    notes       \* the ErrorProvider and ToastProvider states

vars ==
    <<store, used, now, req, response, calls, accepted, won, bulk, client, ui,
      api, svc, notes>>

\* the frontend outside the consistency calls and the dashboard
web == <<api, svc, notes>>

\* the state outside the single-product handlers
others == <<bulk, client, ui, api, svc, notes>>

\* the state of the backend
backend == <<store, used, now, req, response, calls, accepted, won, bulk>>

(* ------------------------- service helpers ------------------------------ *)
\* products.service.ts findOne: the row loaded as an entity
ToEntity(id, row) ==
    [id |-> id, name |-> row.name, quantity |-> row.quantity,
     version |-> row.version, updatedAt |-> row.updatedAt]

\* the version check written as a truthiness test: if (dto.version && ...)
VersionConflictTruthy(dto, product) ==
    dto.version # Undefined /\ dto.version # 0 /\ product.version # dto.version

\* the version check without its `!== undefined` guard
VersionConflictUnguarded(dto, product) ==
    product.version # dto.version

\* if (dto.version !== undefined && product.version !== dto.version)
VersionConflict(dto, product) ==
    dto.version # Undefined /\ product.version # dto.version

\* the timestamp check written as a truthiness test: if (dto.lastModified)
TimestampConflictTruthy(dto, product) ==
    dto.lastModified # Undefined /\ dto.lastModified # 0
    /\ product.updatedAt > dto.lastModified

\* if (dto.lastModified !== undefined) { if (product.updatedAt > new Date(dto.lastModified)) }
TimestampConflict(dto, product) ==
    dto.lastModified # Undefined /\ product.updatedAt > dto.lastModified

\* const { version, lastModified, ...updateData } = updateProductDto
StripControl(dto) ==
    [id |-> dto.id, name |-> dto.name, quantity |-> dto.quantity]

\* Object.assign(product, data): every property present in data overwrites
ObjectAssign(product, data) ==
    [product EXCEPT
        !.id = IF data.id # Undefined THEN data.id ELSE @,
        !.name = IF data.name # Undefined THEN data.name ELSE @,
        !.quantity = IF data.quantity # Undefined THEN data.quantity ELSE @]

\* the entity as the handler holds it while save is pending: version and
\* updatedAt are ORM-managed and are not read again by the handler
Pending(entity) == [entity EXCEPT !.version = 0, !.updatedAt = 0]

(* ------------------------- repository.save ------------------------------ *)
\* the columns of the entity that differ from the stored row
DiffColumns(row, entity) ==
    {f \in {"name", "quantity"} :
        (f = "name" /\ row.name # entity.name) \/ (f = "quantity" /\ row.quantity # entity.quantity)}

\* the row an UPDATE of the differing columns leaves behind
UpdatedRow(row, entity, t) ==
    [exists |-> TRUE, name |-> entity.name, quantity |-> entity.quantity,
     version |-> row.version + 1, updatedAt |-> t]

\* the row an INSERT of the entity creates
InsertedRow(entity, t) ==
    [exists |-> TRUE, name |-> entity.name, quantity |-> entity.quantity,
     version |-> 1, updatedAt |-> t]

\* productRepository.save(entity) at database time t
SaveRow(row, entity, t) ==
    IF ~row.exists THEN InsertedRow(entity, t)
    ELSE IF DiffColumns(row, entity) = {} THEN row
    ELSE UpdatedRow(row, entity, t)

\* the optimistic-concurrency properties a versioned DTO carries
Control(dto) ==
    {c \in {"version", "lastModified"} :
        (c = "version" /\ dto.version # Undefined)
        \/ (c = "lastModified" /\ dto.lastModified # Undefined)}

\* the handler state update() reaches at its second await, or its failure
UpdateOutcome(st, id, dto) ==
    IF ~st[id].exists THEN [Idle EXCEPT !.pc = "NotFound"]
    ELSE [Idle EXCEPT !.pc = "saving", !.op = "update", !.id = id,
                      !.entity = Pending(ObjectAssign(ToEntity(id, st[id]), dto))]

\* the handler state updateWithVersionCheck() reaches at its second await,
\* or its failure
UpdateWithVersionCheckOutcome(st, id, dto) ==
    LET product == ToEntity(id, st[id]) IN
    IF ~st[id].exists THEN [Idle EXCEPT !.pc = "NotFound"]
    ELSE IF VersionConflict(dto, product)
    THEN [Idle EXCEPT !.pc = "Conflict", !.message = "modified by another user"]
    ELSE IF TimestampConflict(dto, product)
    THEN [Idle EXCEPT !.pc = "Conflict", !.message = "modified more recently on the server"]
    ELSE [Idle EXCEPT !.pc = "saving", !.op = "updateWithVersionCheck", !.id = id,
                      !.control = Control(dto), !.believed = dto.version,
                      !.entity = Pending(ObjectAssign(product, StripControl(dto)))]

\* a call that runs from its first statement to its return at database time
\* t, given the handler state h it reaches at its second await: the outcome,
\* the product returned and the table it leaves
Settle(h, st, t) ==
    IF h.pc = "saving"
    THEN LET new == SaveRow(st[h.entity.id], h.entity, t) IN
         [result |-> "ok", product |-> ToEntity(h.entity.id, new),
          store |-> [st EXCEPT ![h.entity.id] = new]]
    ELSE [result |-> h.pc, product |-> NoEntity, store |-> st]

\* update(id, dto) as one uninterrupted call
update(st, t, id, dto) == Settle(UpdateOutcome(st, id, dto), st, t)

\* updateWithVersionCheck(id, dto) as one uninterrupted call
updateWithVersionCheck(st, t, id, dto) ==
    Settle(UpdateWithVersionCheckOutcome(st, id, dto), st, t)

\* no checked write persisted yet
NoneWon == [r \in 1..MaxVersion |-> 0]

\* the winners recorded once handler h has saved onto `row`: a write counts
\* when it was addressed to the row it saved and changed it
WonAfter(w, h, row, new) ==
    IF ~row.exists THEN NoneWon
    ELSE IF new # row /\ h.id = h.entity.id /\ h.believed \in DOMAIN w
    THEN [w EXCEPT ![h.believed] = @ + 1]
    ELSE w

(* ------------------- checkDataConsistency / checksum -------------------- *)
\* JavaScript int32: the range of the bitwise operators
MinInt32 == -2147483647 - 1

MaxInt32 == 2147483647

\* ToInt32(a + b) for int32 a, b, computed without leaving the int32 range
AddInt32(a, b) ==
    IF a >= 0 /\ b >= 0
    THEN IF a <= MaxInt32 - b THEN a + b ELSE ((a - MaxInt32) + (b - MaxInt32)) - 2
    ELSE IF a < 0 /\ b < 0
    THEN IF a >= MinInt32 - b THEN a + b ELSE ((a + MaxInt32) + (b + MaxInt32)) + 2
    ELSE a + b

\* ToInt32(a - b) for int32 a, b
SubInt32(a, b) ==
    IF b = MinInt32
    THEN IF a >= 0 THEN a + MinInt32 ELSE (a + MaxInt32) + 1
    ELSE AddInt32(a, 0 - b)

\* hash << 5 : the low 27 bits move up, bit 26 becomes the sign
ShiftLeft5(h) ==
    LET low == h % 134217728 IN
    IF low >= 67108864 THEN ((low - 67108864) * 32 - MaxInt32) - 1 ELSE low * 32

\* one round of the loop: hash = ((hash << 5) - hash) + char; hash = hash & hash
HashStep(hash, char) == AddInt32(SubInt32(ShiftLeft5(hash), hash), char)

RECURSIVE HashFrom(_, _, _)
\* the loop of generateChecksum from index i on
HashFrom(hash, data, i) ==
    IF i > Len(data) THEN hash ELSE HashFrom(HashStep(hash, data[i]), data, i + 1)

\* the character of a digit in radix 36: '0'..'9', 'a'..'z'
DigitChar(d) == IF d < 10 THEN 48 + d ELSE 87 + d

RECURSIVE Radix(_, _)
\* the digits of n >= 0 in radix r, as character codes
Radix(n, r) ==
    IF n < r THEN <<DigitChar(n)>> ELSE Radix(n \div r, r) \o <<DigitChar(n % r)>>

\* Number.prototype.toString(36) of an int32
ToString36(n) ==
    IF n >= 0 THEN Radix(n, 36)
    ELSE LET last == (36 - (n % 36)) % 36
             rest == 0 - ((n + last) \div 36)
         IN <<45>> \o (IF rest = 0 THEN << >> ELSE Radix(rest, 36)) \o <<DigitChar(last)>>

\* generateChecksum(data): data is a string, as a sequence of UTF-16 code units
generateChecksum(data) == ToString36(HashFrom(0, data, 1))

\* the uuid of a product as a string; ids 1, 2, ... are the strings "a", "b", ...
IdString(id) == <<96 + id>>

\* a checksum entry that leaves the version out: `${p.id}:${p.updatedAt.getTime()}`
ChecksumEntryWithoutVersion(id, row) ==
    IdString(id) \o <<58>> \o Radix(row.updatedAt, 10)

\* `${p.id}:${p.version}:${p.updatedAt.getTime()}`
ChecksumEntry(id, row) ==
    IdString(id) \o <<58>> \o Radix(row.version, 10) \o <<58>> \o Radix(row.updatedAt, 10)

RECURSIVE JoinFrom(_, _, _)
\* products.map(...).join('|') from index i on
JoinFrom(st, order, i) ==
    IF i > Len(order) THEN << >>
    ELSE ChecksumEntry(order[i], st[order[i]])
         \o (IF i < Len(order) THEN <<124>> ELSE << >>) \o JoinFrom(st, order, i + 1)

\* the ids that have a row
Existing(st) == {i \in Ids : st[i].exists}

\* the results find({ order: { updatedAt: 'DESC' } }) can return: every
\* arrangement of the rows with non-increasing updatedAt; rows with equal
\* updatedAt come in an order the database picks
FetchOrders(st) ==
    {o \in [1..Cardinality(Existing(st)) -> Existing(st)] :
        /\ \A i, j \in DOMAIN o : i # j => o[i] # o[j]
        /\ \A i, j \in DOMAIN o : i < j => st[o[i]].updatedAt >= st[o[j]].updatedAt}

\* `null`
Null == 0

\* the body of a response that carries no consistency snapshot
NoBody == [totalProducts |-> 0, lastModified |-> Null, checksum |-> << >>]

\* checkDataConsistency() when find returned the rows in `order`
checkDataConsistency(st, order) ==
    [totalProducts |-> Len(order),
     lastModified |-> IF Len(order) > 0 THEN st[order[1]].updatedAt ELSE Null,
     checksum |-> generateChecksum(JoinFrom(st, order, 1))]

\* the response of a request that failed or returns no product
Respond(op, id, result) ==
    [op |-> op, id |-> id, result |-> result, message |-> "", control |-> {},
     saved |-> 0, body |-> NoBody]

\* the response of a handler that threw
Thrown(h, op, id) == [Respond(op, id, h.pc) EXCEPT !.message = h.message]

\* the response of update / updateWithVersionCheck returning the saved product
Returned(h) ==
    [Respond(h.op, h.id, "ok") EXCEPT !.control = h.control, !.saved = h.entity.id]

(* ------------------------------ Init ------------------------------------ *)
\* no bulk update in progress
NoBulk == [pc |-> "idle", updates |-> << >>, seen |-> << >>, updated |-> << >>,
           conflicts |-> << >>]

\* the frontend before its first fetch: the product list it holds, the
\* conflicts of the last check (the hook's state.conflicts), the strategy and
\* the locals of the resolveConflicts call in progress
NoClient ==
    [pc |-> "idle", loaded |-> FALSE, products |-> << >>, op |-> "none",
     conflicts |-> << >>, isConsistent |-> TRUE, detected |-> << >>,
     strategy |-> "none", serverProducts |-> << >>, resolved |-> << >>,
     outcomes |-> << >>, writes |-> 0]

\* the dashboard before its first load: the list it displays (the products
\* state), the response of a GET /products still on its way, and the locals of
\* the optimistic operation in progress; `shown` remembers the list that was
\* on display when the optimistic change was applied, `via` the entry point,
\* `attempts` and `rollbacks` how often operation() and the revert were
\* invoked, `error` what the latest attempt threw and `thrown` what the call
\* rejected with
NoUi ==
    [pc |-> "idle", products |-> << >>, loading |-> FALSE, data |-> << >>,
     productId |-> 0, originalProducts |-> << >>, retries |-> 0,
     shown |-> << >>, reloaded |-> FALSE, outcome |-> "none",
     via |-> "none", attempts |-> 0, rollbacks |-> 0, error |-> "none",
     thrown |-> "none"]

\* the ApiClient after its constructor: an empty cache and no pending
\* request for the key of GET /products; `stamp` counts the writes of this
\* client the server had applied when it produced the data, `need` the writes
\* that had resolved when the caller asked, `returned` is what the last
\* getProducts call resolved with
NoApi ==
    [cache |-> [valid |-> FALSE, data |-> << >>, stamp |-> 0],
     pending |-> [active |-> FALSE, answered |-> FALSE, data |-> << >>, stamp |-> 0],
     waiting |-> FALSE, need |-> 0, writes |-> 0,
     returned |-> [data |-> << >>, stamp |-> 0, need |-> 0]]

\* no DataConsistencyService yet; once constructed: its options, its
\* refreshTimer (0 for null), the interval handles that are not cleared, and
\* what the interval callbacks did
NoSvc ==
    [constructed |-> FALSE, enableAutoRefresh |-> FALSE, refreshTimer |-> 0,
     active |-> {}, handles |-> 0, ticks |-> 0, refreshes |-> 0, failures |-> 0,
     lastSnapshot |-> << >>, last |-> "none", lastFailed |-> FALSE]

\* the providers' initial states: no error, no toast, no auto-hide timeout;
\* `added` pairs the id each add call returned with the id of the entry the
\* reducer stored
NoNotes ==
    [errors |-> << >>, toasts |-> << >>, timeouts |-> {}, added |-> << >>]

Init ==
    /\ store = [i \in Ids |-> NoRow]
    /\ used = {}
    /\ now = 1
    /\ req = Idle
    /\ response = Respond("none", 0, "none")
    /\ won = [i \in Ids |-> NoneWon]
    /\ calls = 0
    /\ accepted = [i \in Ids |-> 0]
    /\ bulk = NoBulk
    /\ client = NoClient
    /\ ui = NoUi
    /\ api = NoApi
    /\ svc = NoSvc
    /\ notes = NoNotes

(* ------------------------------ actions --------------------------------- *)
\* the database clock advances
Tick ==
    /\ now < MaxTime
    /\ now' = now + 1
    /\ UNCHANGED <<store, used, req, response, calls, accepted, won>>

\* create(dto): repository.create + save of an entity without id => INSERT
\* under a freshly generated uuid
Create(dto) ==
    /\ Ids \ used # {}
    /\ LET id == CHOOSE i \in Ids \ used : \A j \in Ids \ used : i <= j IN
        /\ store' = [store EXCEPT ![id] =
                        InsertedRow([NoEntity EXCEPT !.id = id, !.name = dto.name,
                                                     !.quantity = dto.quantity], now)]
        /\ used' = used \cup {id}
        /\ response' = Respond("create", id, "ok")
    /\ UNCHANGED <<now, req, accepted, won>>

\* findOne(id): one read, NotFound when there is no row
FindOne(id) ==
    /\ response' = Respond("findOne", id, IF store[id].exists THEN "ok" ELSE "NotFound")
    /\ UNCHANGED <<store, used, now, req, accepted, won>>

\* checkDataConsistency(): one find, then the checksum of what it returned
CheckDataConsistency ==
    /\ \E order \in FetchOrders(store) :
         response' = [Respond("checkDataConsistency", 0, "ok")
                         EXCEPT !.body = checkDataConsistency(store, order)]
    /\ UNCHANGED <<store, used, now, req, accepted, won>>

\* a handler arrives at its second await (h.pc = "saving") or has thrown
Suspend(h, op, id) ==
    /\ req.pc = "idle"
    /\ IF h.pc = "saving"
       THEN req' = h /\ UNCHANGED response
       ELSE response' = Thrown(h, op, id) /\ UNCHANGED req
    /\ UNCHANGED <<store, used, now, accepted, won>>

\* return await this.productRepository.save(product), by handler h
SaveBy(h) ==
    LET e == h.entity
        row == store[e.id]
        new == Settle(h, store, now).store[e.id]
    IN
    /\ store' = Settle(h, store, now).store
    /\ used' = used \cup {e.id}
    /\ accepted' = [accepted EXCEPT ![e.id] = IF row.exists THEN @ + 1 ELSE 0]
    /\ won' = [won EXCEPT ![e.id] = WonAfter(@, h, row, new)]
    /\ response' = Returned(h)
    /\ UNCHANGED now

\* a handler runs from its read to its write while another one is suspended
Run(h, op, id) ==
    /\ req.pc # "idle"
    /\ IF h.pc = "saving"
       THEN SaveBy(h)
       ELSE response' = Thrown(h, op, id) /\ UNCHANGED <<store, used, now, accepted, won>>
    /\ UNCHANGED req

\* update(id, dto) up to its second await: findOne, Object.assign
UpdateBegin(id, dto) ==
    Suspend(UpdateOutcome(store, id, dto), "update", id)

\* update(id, dto) from findOne to save
UpdateRun(id, dto) ==
    Run(UpdateOutcome(store, id, dto), "update", id)

\* updateWithVersionCheck(id, dto) up to its second await:
\* findOne, version check, timestamp check, destructuring, Object.assign
UpdateWithVersionCheckBegin(id, dto) ==
    Suspend(UpdateWithVersionCheckOutcome(store, id, dto), "updateWithVersionCheck", id)

\* updateWithVersionCheck(id, dto) from findOne to save
UpdateWithVersionCheckRun(id, dto) ==
    Run(UpdateWithVersionCheckOutcome(store, id, dto), "updateWithVersionCheck", id)

\* the suspended update / updateWithVersionCheck resumes: repository.save
Save ==
    /\ req.pc = "saving"
    /\ SaveBy(req)
    /\ req' = Idle

\* the handler state remove() reaches at its second await, or its failure
RemoveOutcome(st, id) ==
    IF ~st[id].exists THEN [Idle EXCEPT !.pc = "NotFound"]
    ELSE [Idle EXCEPT !.pc = "removing", !.op = "remove", !.id = id,
                      !.entity = Pending(ToEntity(id, st[id]))]

\* await this.productRepository.remove(product), by handler h
RemoveBy(h) ==
    LET id == h.entity.id IN
    /\ store' = [store EXCEPT ![id] = NoRow]
    /\ accepted' = [accepted EXCEPT ![id] = 0]
    /\ won' = [won EXCEPT ![id] = NoneWon]
    /\ response' = Respond("remove", h.id, "ok")
    /\ UNCHANGED <<used, now>>

\* remove(id) up to its second await: findOne
RemoveBegin(id) ==
    /\ req.pc = "idle"
    /\ LET h == RemoveOutcome(store, id) IN
       IF h.pc = "removing"
       THEN req' = h /\ UNCHANGED response
       ELSE response' = Respond("remove", id, h.pc) /\ UNCHANGED req
    /\ UNCHANGED <<store, used, now, accepted, won>>

\* remove(id) from findOne to repository.remove
RemoveRun(id) ==
    /\ req.pc # "idle"
    /\ LET h == RemoveOutcome(store, id) IN
       IF h.pc = "removing"
       THEN RemoveBy(h)
       ELSE response' = Respond("remove", id, h.pc) /\ UNCHANGED <<store, used, now, accepted, won>>
    /\ UNCHANGED req

\* the suspended remove resumes: repository.remove
Remove ==
    /\ req.pc = "removing"
    /\ RemoveBy(req)
    /\ req' = Idle

\* a request is received
Receive ==
    /\ calls < MaxCalls
    /\ calls' = calls + 1

Next ==
    \/ Tick /\ UNCHANGED others
    \/ \E dto \in CreateProductDto : Receive /\ Create(dto) /\ UNCHANGED others
    \/ \E id \in Ids : Receive /\ FindOne(id) /\ UNCHANGED others
    \/ Receive /\ CheckDataConsistency /\ UNCHANGED others
    \/ \E id \in Ids, dto \in UpdateProductDto :
          Receive /\ UpdateBegin(id, dto) /\ UNCHANGED others
    \/ \E id \in Ids, dto \in UpdateProductDto :
          Receive /\ UpdateRun(id, dto) /\ UNCHANGED others
    \/ \E id \in Ids, dto \in UpdateProductVersionedDto :
          Receive /\ UpdateWithVersionCheckBegin(id, dto) /\ UNCHANGED others
    \/ \E id \in Ids, dto \in UpdateProductVersionedDto :
          Receive /\ UpdateWithVersionCheckRun(id, dto) /\ UNCHANGED others
    \/ Save /\ UNCHANGED calls /\ UNCHANGED others
    \/ \E id \in Ids : Receive /\ RemoveBegin(id) /\ UNCHANGED others
    \/ \E id \in Ids : Receive /\ RemoveRun(id) /\ UNCHANGED others
    \/ Remove /\ UNCHANGED calls /\ UNCHANGED others

Spec == Init /\ [][Next]_vars

(* ---------------- bulkUpdateWithConflictDetection ----------------------- *)
\* longest batch of a bulk update
MaxBatch == 3

\* the patches of a bulk update: each may lack its id, name a row that
\* exists or not, and carry a believed revision and a believed lastModified
BulkPatch ==
    [id : Ids \cup {Undefined}, name : {2}, quantity : {Undefined},
     version : 1..2, lastModified : {Undefined, 0}]

\* the request bodies of POST /products/bulk-update
BulkUpdates == UNION {[1..n -> BulkPatch] : n \in 0..MaxBatch}

\* the products created before a bulk update
BulkCreateDto == [name : {1}, quantity : {1}]

\* findOneWithVersion(id): the row as the loop finds it, NoRow when missing
findOneWithVersion(st, id) == IF id \in Ids THEN st[id] ELSE NoRow

\* the entry pushed to `conflicts` after a ConflictException
VersionConflictEntry(st, dto) ==
    IF findOneWithVersion(st, dto.id).exists
    THEN [id |-> dto.id, field |-> "version",
          currentValue |-> findOneWithVersion(st, dto.id).version,
          attemptedValue |-> dto.version]
    ELSE [id |-> dto.id, field |-> "existence", currentValue |-> Null,
          attemptedValue |-> dto.version]

\* a loop body that rethrows the ConflictException like any other error
BulkIterationRethrows(b, st, t) ==
    LET dto == b.updates[Len(b.seen) + 1]
        was == [b EXCEPT !.seen = Append(@, findOneWithVersion(st, dto.id))]
    IN
    IF dto.id = Undefined
    THEN [bulk |-> [was EXCEPT !.pc = "BadRequest"], store |-> st]
    ELSE LET r == updateWithVersionCheck(st, t, dto.id, dto) IN
         IF r.result = "ok"
         THEN [bulk |-> [was EXCEPT !.updated = Append(@, r.product)], store |-> r.store]
         ELSE [bulk |-> [was EXCEPT !.pc = r.result], store |-> st]

\* one round of `for (const updateDto of updates)`: the bulk call and the
\* table it leaves
BulkIteration(b, st, t) ==
    LET dto == b.updates[Len(b.seen) + 1]
        was == [b EXCEPT !.seen = Append(@, findOneWithVersion(st, dto.id))]
    IN
    IF dto.id = Undefined
    THEN [bulk |-> [was EXCEPT !.pc = "BadRequest"], store |-> st]
    ELSE LET r == updateWithVersionCheck(st, t, dto.id, dto) IN
         IF r.result = "ok"
         THEN [bulk |-> [was EXCEPT !.updated = Append(@, r.product)], store |-> r.store]
         ELSE IF r.result = "Conflict"
         THEN [bulk |-> [was EXCEPT !.conflicts = Append(@, VersionConflictEntry(st, dto))],
               store |-> st]
         ELSE [bulk |-> [was EXCEPT !.pc = r.result], store |-> st]

\* the controller receives a batch
BulkBegin(updates) ==
    /\ bulk.pc = "idle"
    /\ bulk' = [NoBulk EXCEPT !.pc = "running", !.updates = updates]
    /\ UNCHANGED <<store, used, now, req, response, calls, accepted, won, client, ui, web>>

\* the loop takes the next patch
BulkIterate ==
    /\ bulk.pc = "running"
    /\ Len(bulk.seen) < Len(bulk.updates)
    /\ bulk' = BulkIteration(bulk, store, now).bulk
    /\ store' = BulkIteration(bulk, store, now).store
    /\ UNCHANGED <<used, now, req, response, calls, accepted, won, client, ui, web>>

\* return { updated, conflicts }
BulkReturn ==
    /\ bulk.pc = "running"
    /\ Len(bulk.seen) = Len(bulk.updates)
    /\ bulk' = [bulk EXCEPT !.pc = "returned"]
    /\ UNCHANGED <<store, used, now, req, response, calls, accepted, won, client, ui, web>>

BulkNext ==
    \/ Tick /\ UNCHANGED others
    \/ \E dto \in BulkCreateDto :
          bulk.pc = "idle" /\ Receive /\ Create(dto) /\ UNCHANGED others
    \/ \E updates \in BulkUpdates : BulkBegin(updates)
    \/ BulkIterate
    \/ BulkReturn

BulkSpec == Init /\ [][BulkNext]_vars

(* ------------- conflict detection: server and frontend ------------------ *)
\* the string 'exists' that stands for the client's copy of a deleted product
Exists == -2

\* findAll(): the rows as Product[], newest first (ids are handed out in
\* creation order)
RECURSIVE FindAllFrom(_, _)
FindAllFrom(st, i) ==
    IF i = 0 THEN << >>
    ELSE (IF st[i].exists THEN <<ToEntity(i, st[i])>> ELSE << >>) \o FindAllFrom(st, i - 1)

\* apiClient.getProducts(): GET /products
getProducts(st) == FindAllFrom(st, Cardinality(Ids))

\* products.sort((a, b) => a.id.localeCompare(b.id)): the array itself, put
\* in ascending order of id
RECURSIVE SortFrom(_, _)
SortFrom(products, i) ==
    IF i > Cardinality(Ids) THEN << >>
    ELSE SelectSeq(products, LAMBDA p : p.id = i) \o SortFrom(products, i + 1)

\* calculateChecksum(products) as the caller's array sees it: sorted in place
calculateChecksum(products) == SortFrom(products, 1)

\* createSnapshot(products): what the call leaves in the caller's array and
\* the deep clone it stores, taken after the checksum
createSnapshot(products) ==
    [products |-> calculateChecksum(products),
     snapshot |-> calculateChecksum(products)]

\* refreshData(): GET /products, createSnapshot(serverProducts), and the
\* same array returned
refreshData(st) == createSnapshot(getProducts(st)).products

\* new Map(products.map(p => [p.id, p])).get(id): the last product with that
\* id, NoEntity when there is none
MapGet(products, id) ==
    LET at == {k \in DOMAIN products : products[k].id = id} IN
    IF at = {} THEN NoEntity ELSE products[CHOOSE k \in at : \A j \in at : j <= k]

\* the keys of that Map, in insertion order
MapKeys(products) ==
    LET first(k) == \A j \in 1..(k - 1) : products[j].id # products[k].id
        at == SelectSeq([k \in DOMAIN products |-> k], first)
    IN [j \in DOMAIN at |-> products[at[j]].id]

\* DataConsistencyService.compareProducts: one conflict per differing field,
\* and only when the server's copy is strictly newer
compareProducts(clientProduct, serverProduct) ==
    IF serverProduct.updatedAt > clientProduct.updatedAt
    THEN (IF clientProduct.name # serverProduct.name
          THEN <<[productId |-> clientProduct.id, field |-> "name",
                  clientValue |-> clientProduct.name, serverValue |-> serverProduct.name]>>
          ELSE << >>)
         \o (IF clientProduct.quantity # serverProduct.quantity
             THEN <<[productId |-> clientProduct.id, field |-> "quantity",
                     clientValue |-> clientProduct.quantity,
                     serverValue |-> serverProduct.quantity]>>
             ELSE << >>)
    ELSE << >>

RECURSIVE DetectFrom(_, _, _, _)
\* the loop of DataConsistencyService.detectConflicts over the client's Map
DetectFrom(keys, i, clientProducts, serverProducts) ==
    IF i > Len(keys) THEN << >>
    ELSE (IF MapGet(serverProducts, keys[i]) # NoEntity
          THEN compareProducts(MapGet(clientProducts, keys[i]),
                               MapGet(serverProducts, keys[i]))
          ELSE << >>)
         \o DetectFrom(keys, i + 1, clientProducts, serverProducts)

\* DataConsistencyService.detectConflicts(clientProducts, serverProducts)
DataConsistencyService_detectConflicts(clientProducts, serverProducts) ==
    DetectFrom(MapKeys(clientProducts), 1, clientProducts, serverProducts)

\* the server's comparison with the timestamps compared by >=
compareProductVersionsNotStrict(clientProduct, serverProduct) ==
    (IF clientProduct.version # Undefined /\ clientProduct.version # serverProduct.version
     THEN <<[field |-> "version", currentValue |-> serverProduct.version,
             attemptedValue |-> clientProduct.version]>>
     ELSE << >>)
    \o (IF /\ clientProduct.updatedAt \notin {Undefined, Null}
           /\ serverProduct.updatedAt >= clientProduct.updatedAt
        THEN <<[field |-> "updatedAt", currentValue |-> serverProduct.updatedAt,
                attemptedValue |-> clientProduct.updatedAt]>>
        ELSE << >>)

\* ProductsService.compareProductVersions(clientProduct, serverProduct)
compareProductVersions(clientProduct, serverProduct) ==
    (IF clientProduct.version # Undefined /\ clientProduct.version # serverProduct.version
     THEN <<[field |-> "version", currentValue |-> serverProduct.version,
             attemptedValue |-> clientProduct.version]>>
     ELSE << >>)
    \o (IF /\ clientProduct.updatedAt \notin {Undefined, Null}
           /\ serverProduct.updatedAt > clientProduct.updatedAt
        THEN <<[field |-> "updatedAt", currentValue |-> serverProduct.updatedAt,
                attemptedValue |-> clientProduct.updatedAt]>>
        ELSE << >>)

\* the `existence` conflict of a product the server no longer has
ExistenceConflict ==
    <<[field |-> "existence", currentValue |-> Null, attemptedValue |-> Exists]>>

RECURSIVE ServiceDetectFrom(_, _, _)
\* the loop of ProductsService.detectConflicts from index i on
ServiceDetectFrom(st, clientProducts, i) ==
    IF i > Len(clientProducts) THEN << >>
    ELSE LET c == clientProducts[i]
             found == IF findOneWithVersion(st, c.id).exists
                      THEN compareProductVersions(c, ToEntity(c.id, st[c.id]))
                      ELSE ExistenceConflict
         IN (IF c.id \in {Undefined, Null} \/ found = << >> THEN << >>
             ELSE <<[id |-> c.id, conflicts |-> found]>>)
            \o ServiceDetectFrom(st, clientProducts, i + 1)

\* ProductsService.detectConflicts(clientProducts)
ProductsService_detectConflicts(st, clientProducts) ==
    ServiceDetectFrom(st, clientProducts, 1)

(* ---------------- conflict resolution in the frontend ------------------- *)
Strategies == {"server-wins", "client-wins", "merge", "prompt-user"}

\* a switch that sends 'prompt-user' to the client-wins resolver
ResolverPromptWrites(strategy) ==
    IF strategy = "client-wins" \/ strategy = "prompt-user" THEN "resolveClientWins"
    ELSE IF strategy = "merge" THEN "resolveMerge"
    ELSE "resolveServerWins"

\* the switch of resolveConflicts: the resolver a strategy runs
Resolver(strategy) ==
    IF strategy = "client-wins" THEN "resolveClientWins"
    ELSE IF strategy = "merge" THEN "resolveMerge"
    ELSE "resolveServerWins"

\* resolveServerWins(conflicts, serverProducts)
resolveServerWins(conflicts, serverProducts) == serverProducts

\* a merge in which the server's copy wins a tie
mergeProductsServerOnTie(clientProduct, serverProduct) ==
    IF serverProduct.updatedAt >= clientProduct.updatedAt THEN serverProduct ELSE clientProduct

\* mergeProducts(clientProduct, serverProduct): the whole newer product
mergeProducts(clientProduct, serverProduct) ==
    IF serverProduct.updatedAt > clientProduct.updatedAt THEN serverProduct ELSE clientProduct

\* new Set([...clientMap.keys(), ...serverMap.keys()]), in insertion order
AllIds(clientProducts, serverProducts) ==
    MapKeys([k \in 1..(Len(MapKeys(clientProducts)) + Len(MapKeys(serverProducts))) |->
                [NoEntity EXCEPT !.id =
                    IF k <= Len(MapKeys(clientProducts)) THEN MapKeys(clientProducts)[k]
                    ELSE MapKeys(serverProducts)[k - Len(MapKeys(clientProducts))]]])

\* resolveMerge(conflicts, clientProducts, serverProducts)
resolveMerge(conflicts, clientProducts, serverProducts) ==
    LET allIds == AllIds(clientProducts, serverProducts) IN
    [k \in DOMAIN allIds |->
        LET clientProduct == MapGet(clientProducts, allIds[k])
            serverProduct == MapGet(serverProducts, allIds[k])
        IN IF clientProduct # NoEntity /\ serverProduct # NoEntity
           THEN mergeProducts(clientProduct, serverProduct)
           ELSE IF clientProduct # NoEntity THEN clientProduct ELSE serverProduct]

\* new Set(conflicts.map(c => c.productId))
ConflictedProductIds(conflicts) == {conflicts[k].productId : k \in DOMAIN conflicts}

\* a request body that leaves the quantity out
ClientPatchWithoutQuantity(clientProduct) ==
    [id |-> Undefined, name |-> clientProduct.name, quantity |-> Undefined,
     version |-> Undefined, lastModified |-> Undefined]

\* the body resolveClientWins sends to PUT /products/:id: every business field
ClientPatch(clientProduct) ==
    [id |-> Undefined, name |-> clientProduct.name, quantity |-> clientProduct.quantity,
     version |-> Undefined, lastModified |-> Undefined]

\* serverProducts.find(p => p.id === id): the first one, NoEntity for undefined
ArrayFind(products, id) ==
    LET at == {k \in DOMAIN products : products[k].id = id} IN
    IF at = {} THEN NoEntity ELSE products[CHOOSE k \in at : \A j \in at : k <= j]

\* one round of the loop of resolveClientWins; `fails` is a request that
\* does not reach the server
ClientWinsIteration(c, st, t, fails) ==
    LET clientProduct == c.products[Len(c.outcomes) + 1]
        r == update(st, t, clientProduct.id, ClientPatch(clientProduct))
        serverProduct == ArrayFind(c.serverProducts, clientProduct.id)
    IN
    IF clientProduct.id \notin ConflictedProductIds(c.conflicts)
    THEN [client |-> [c EXCEPT !.outcomes = Append(@, "unchanged"),
                               !.resolved = Append(@, clientProduct)],
          store |-> st]
    ELSE IF ~fails /\ r.result = "ok"
    THEN [client |-> [c EXCEPT !.outcomes = Append(@, "written"),
                               !.resolved = Append(@, r.product),
                               !.writes = @ + 1],
          store |-> r.store]
    ELSE [client |-> [c EXCEPT !.outcomes = Append(@, "failed"),
                               !.resolved = IF serverProduct # NoEntity
                                            THEN Append(@, serverProduct) ELSE @],
          store |-> st]

(* ------------------- the frontend and other users ----------------------- *)
\* the change another user makes to a product
OtherUpdateDto ==
    [id : {Undefined}, name : {2}, quantity : {Undefined}, version : {Undefined},
     lastModified : {Undefined}]

\* another user's PUT /products/:id, from findOne to save
OtherUpdate(id, dto) ==
    /\ client.pc # "resolved"
    /\ update(store, now, id, dto).result = "ok"
    /\ store' = update(store, now, id, dto).store
    /\ UNCHANGED <<used, now, req, response, accepted, won, bulk, client, ui, web>>

\* another user's DELETE /products/:id
OtherRemove(id) ==
    /\ client.pc # "resolved"
    /\ store[id].exists
    /\ store' = [store EXCEPT ![id] = NoRow]
    /\ UNCHANGED <<used, now, req, response, accepted, won, bulk, client, ui, web>>

\* the frontend loads its product list
Fetch ==
    /\ ~client.loaded
    /\ client' = [client EXCEPT !.loaded = TRUE, !.products = refreshData(store)]
    /\ UNCHANGED <<store, used, now, req, response, calls, accepted, won, bulk, ui, web>>

\* the user changes a field of the frontend's copy of a product
Edit(k, field) ==
    /\ client.pc = "idle" /\ client.loaded
    /\ k \in DOMAIN client.products
    /\ \/ field = "name" /\ client.products[k].name # 2
          /\ client' = [client EXCEPT !.products[k].name = 2]
       \/ field = "quantity" /\ client.products[k].quantity # 2
          /\ client' = [client EXCEPT !.products[k].quantity = 2]
    /\ UNCHANGED <<store, used, now, req, response, calls, accepted, won, bulk, ui, web>>

\* POST /products/detect-conflicts with the frontend's list
DetectConflicts ==
    /\ client.pc = "idle" /\ client.loaded
    /\ client' = [client EXCEPT
                    !.op = "detectConflicts",
                    !.detected = ProductsService_detectConflicts(store, client.products)]
    /\ UNCHANGED <<store, used, now, req, response, calls, accepted, won, bulk, ui, web>>

\* checkConsistency(clientProducts): fetch, detect, keep the conflicts
CheckConsistency ==
    /\ client.pc = "idle" /\ client.loaded
    /\ LET conflicts == DataConsistencyService_detectConflicts(client.products,
                                                               getProducts(store))
       IN client' = [client EXCEPT !.op = "checkConsistency",
                                   !.serverProducts = getProducts(store),
                                   !.conflicts = conflicts,
                                   !.isConsistent = (Len(conflicts) = 0)]
    /\ UNCHANGED <<store, used, now, req, response, calls, accepted, won, bulk, ui, web>>

\* the hook's resolveConflicts(products): refreshData() first
ResolveBegin(strategy) ==
    /\ client.pc = "idle" /\ client.loaded
    /\ client' = [client EXCEPT !.pc = "refreshed", !.op = "resolveConflicts",
                                !.strategy = strategy,
                                !.serverProducts = refreshData(store)]
    /\ UNCHANGED <<store, used, now, req, response, calls, accepted, won, bulk, ui, web>>

\* resolveConflicts(conflicts, clientProducts, serverProducts): the switch
ResolveRun ==
    /\ client.pc = "refreshed"
    /\ client' =
         IF Resolver(client.strategy) = "resolveClientWins"
         THEN [client EXCEPT !.pc = "resolving"]
         ELSE IF Resolver(client.strategy) = "resolveMerge"
         THEN [client EXCEPT !.pc = "resolved",
                             !.resolved = resolveMerge(client.conflicts, client.products,
                                                       client.serverProducts)]
         ELSE [client EXCEPT !.pc = "resolved",
                             !.resolved = resolveServerWins(client.conflicts,
                                                            client.serverProducts)]
    /\ UNCHANGED <<store, used, now, req, response, calls, accepted, won, bulk, ui, web>>

\* resolveClientWins takes the next client product
ResolveNext(fails) ==
    /\ client.pc = "resolving"
    /\ Len(client.outcomes) < Len(client.products)
    /\ client' = ClientWinsIteration(client, store, now, fails).client
    /\ store' = ClientWinsIteration(client, store, now, fails).store
    /\ UNCHANGED <<used, now, req, response, calls, accepted, won, bulk, ui, web>>

\* return updatedProducts
ResolveReturn ==
    /\ client.pc = "resolving"
    /\ Len(client.outcomes) = Len(client.products)
    /\ client' = [client EXCEPT !.pc = "resolved"]
    /\ UNCHANGED <<store, used, now, req, response, calls, accepted, won, bulk, ui, web>>

ClientNext ==
    \/ Tick /\ UNCHANGED others
    \/ \E dto \in BulkCreateDto :
          client.pc # "resolved" /\ Receive /\ Create(dto) /\ UNCHANGED others
    \/ \E id \in Ids, dto \in OtherUpdateDto : Receive /\ OtherUpdate(id, dto)
    \/ \E id \in Ids : Receive /\ OtherRemove(id)
    \/ Fetch
    \/ \E k \in 1..Cardinality(Ids), field \in {"name", "quantity"} : Edit(k, field)
    \/ DetectConflicts
    \/ CheckConsistency
    \/ \E strategy \in Strategies : ResolveBegin(strategy)
    \/ ResolveRun
    \/ \E fails \in BOOLEAN : ResolveNext(fails)
    \/ ResolveReturn

ClientSpec == Init /\ [][ClientNext]_vars

(* ----------------------------- the dashboard ---------------------------- *)
\* DataConsistencyService: maxRetries: options.maxRetries ?? 3
maxRetries == 3

\* prev.filter(p => p.id !== productId)
FilterOut(products, productId) ==
    SelectSeq(products, LAMBDA p : p.id # productId)

\* apiClient.deleteProduct(productId): `fails` is a request that does not
\* reach the server, otherwise remove(id) answers
deleteProduct(st, productId, fails) ==
    IF fails THEN "NetworkError"
    ELSE IF st[productId].exists THEN "ok" ELSE "NotFound"

\* a revert that leaves the list as the optimistic change made it
RevertKeepsOptimistic(u) == u

\* setProducts(originalProducts), which is also the rollback() handed to
\* performOptimisticUpdate
Revert(u) == [u EXCEPT !.products = u.originalProducts]

\* loadProducts up to its await: GET /products answers
LoadProductsBegin ==
    /\ ~ui.loading
    /\ ui' = [ui EXCEPT !.loading = TRUE, !.data = getProducts(store)]
    /\ UNCHANGED <<store, used, now, req, response, calls, accepted, won, bulk, client, web>>

\* loadProducts after its await: setProducts(data)
LoadProductsEnd ==
    /\ ui.loading
    /\ ui' = [ui EXCEPT !.loading = FALSE, !.products = ui.data, !.data = << >>,
                        !.reloaded = (ui.pc # "idle")]
    /\ UNCHANGED <<store, used, now, req, response, calls, accepted, won, bulk, client, web>>

\* the optimistic change of both paths: keep the list on display, then
\* take the product out of it
ApplyOptimistic(u, productId) ==
    [u EXCEPT !.productId = productId, !.originalProducts = u.products,
              !.products = FilterOut(u.products, productId),
              !.shown = u.products, !.reloaded = FALSE, !.outcome = "none",
              !.attempts = 1, !.rollbacks = 0, !.error = "none",
              !.thrown = "none"]

\* handleDeleteConfirm(productId) up to its await
HandleDeleteConfirm(productId) ==
    /\ ui.pc = "idle"
    /\ \E k \in DOMAIN ui.products : ui.products[k].id = productId
    /\ ui' = [ApplyOptimistic(ui, productId) EXCEPT !.pc = "deleting",
                                                    !.via = "handleDeleteConfirm"]
    /\ UNCHANGED <<store, used, now, req, response, calls, accepted, won, bulk, client, web>>

\* handleDeleteConfirm after its await: success, or catch and revert
DeleteProductReturns(fails) ==
    /\ ui.pc = "deleting"
    /\ IF deleteProduct(store, ui.productId, fails) = "ok"
       THEN /\ store' = [store EXCEPT ![ui.productId] = NoRow]
            /\ ui' = [ui EXCEPT !.pc = "idle", !.outcome = "ok"]
       ELSE /\ store' = store
            /\ ui' = [Revert(ui) EXCEPT
                         !.pc = "idle", !.outcome = "failed",
                         !.rollbacks = ui.rollbacks + 1,
                         !.error = deleteProduct(store, ui.productId, fails),
                         !.thrown = "none"]
    /\ UNCHANGED <<used, now, req, response, calls, accepted, won, bulk, client, web>>

\* useOptimisticUpdate's performOptimisticUpdate(optimisticUpdate,
\* serverOperation, rollback) up to the first await, for a caller that
\* removes a product the way the dashboard does
PerformOptimisticUpdate(productId) ==
    /\ ui.pc = "idle"
    /\ \E k \in DOMAIN ui.products : ui.products[k].id = productId
    /\ ui' = [ApplyOptimistic(ui, productId) EXCEPT
                 !.pc = "updating", !.via = "performOptimisticUpdate",
                 !.retries = maxRetries]
    /\ UNCHANGED <<store, used, now, req, response, calls, accepted, won, bulk, client, web>>

\* a retry test that lets one more attempt through
RetriesRemainInclusive(retries) == retries >= 0

\* if (retries > 0)
RetriesRemain(retries) == retries > 0

\* DataConsistencyService.performOptimisticUpdate after operation(): return,
\* or rollback() and then, after the delay, another operation() or the throw
OperationReturns(fails) ==
    /\ ui.pc = "updating"
    /\ IF deleteProduct(store, ui.productId, fails) = "ok"
       THEN /\ store' = [store EXCEPT ![ui.productId] = NoRow]
            /\ ui' = [ui EXCEPT !.pc = "idle", !.outcome = "ok"]
       ELSE /\ store' = store
            /\ ui' = IF RetriesRemain(ui.retries)
                     THEN [Revert(ui) EXCEPT
                              !.retries = ui.retries - 1,
                              !.rollbacks = ui.rollbacks + 1,
                              !.attempts = ui.attempts + 1,
                              !.error = deleteProduct(store, ui.productId, fails)]
                     ELSE [Revert(ui) EXCEPT
                              !.pc = "idle", !.outcome = "failed",
                              !.rollbacks = ui.rollbacks + 1,
                              !.error = deleteProduct(store, ui.productId, fails),
                              !.thrown = deleteProduct(store, ui.productId, fails)]
    /\ UNCHANGED <<used, now, req, response, calls, accepted, won, bulk, client, web>>

UiNext ==
    \/ \E dto \in BulkCreateDto : Receive /\ Create(dto) /\ UNCHANGED others
    \/ \E id \in Ids : Receive /\ OtherRemove(id)
    \/ LoadProductsBegin
    \/ LoadProductsEnd
    \/ \E productId \in Ids : HandleDeleteConfirm(productId)
    \/ \E fails \in BOOLEAN : DeleteProductReturns(fails)
    \/ \E productId \in Ids : PerformOptimisticUpdate(productId)
    \/ \E fails \in BOOLEAN : OperationReturns(fails)

UiSpec == Init /\ [][UiNext]_vars

\* the operation's promise settles and the retry delay elapses
UiLiveSpec ==
    Init /\ [][UiNext]_vars /\ WF_vars(\E fails \in BOOLEAN : OperationReturns(fails))

(* ----------------------- the auto-refresh timer ------------------------- *)
MaxHandles == 3
MaxTicks == 3

\* a start that forgets the interval it already has
startAutoRefreshLeaks(s) ==
    [s EXCEPT !.handles = s.handles + 1,
              !.active = s.active \cup {s.handles + 1},
              !.refreshTimer = s.handles + 1]

\* startAutoRefresh(): clearInterval of the current timer, then setInterval
startAutoRefresh(s) ==
    [s EXCEPT !.handles = s.handles + 1,
              !.active = (s.active \ {s.refreshTimer}) \cup {s.handles + 1},
              !.refreshTimer = s.handles + 1]

\* stopAutoRefresh(): clearInterval and null the timer
stopAutoRefresh(s) ==
    IF s.refreshTimer # 0
    THEN [s EXCEPT !.active = s.active \ {s.refreshTimer}, !.refreshTimer = 0]
    ELSE s

\* an interval callback whose failure ends the interval
IntervalCallbackUncaught(s, st, fails) ==
    IF fails
    THEN [s EXCEPT !.ticks = s.ticks + 1, !.refreshes = s.refreshes + 1,
                   !.failures = s.failures + 1, !.active = {}, !.refreshTimer = 0,
                   !.last = "tick", !.lastFailed = TRUE]
    ELSE [s EXCEPT !.ticks = s.ticks + 1, !.refreshes = s.refreshes + 1,
                   !.lastSnapshot = createSnapshot(getProducts(st)).snapshot,
                   !.last = "tick", !.lastFailed = FALSE]

\* the setInterval callback: try { await this.refreshData() } catch { log };
\* `fails` is a GET /products that rejects
IntervalCallback(s, st, fails) ==
    IF fails
    THEN [s EXCEPT !.ticks = s.ticks + 1, !.refreshes = s.refreshes + 1,
                   !.failures = s.failures + 1,
                   !.last = "tick", !.lastFailed = TRUE]
    ELSE [s EXCEPT !.ticks = s.ticks + 1, !.refreshes = s.refreshes + 1,
                   !.lastSnapshot = createSnapshot(getProducts(st)).snapshot,
                   !.last = "tick", !.lastFailed = FALSE]

\* new DataConsistencyService(options)
Construct(enableAutoRefresh) ==
    /\ ~svc.constructed
    /\ svc' = [svc EXCEPT !.constructed = TRUE,
                          !.enableAutoRefresh = enableAutoRefresh]
    /\ UNCHANGED <<backend, client, ui, api, notes>>

\* initialize(), as the hook's effect calls it on every options change
Initialize ==
    /\ svc.constructed
    /\ svc.handles < MaxHandles
    /\ svc' = [(IF svc.enableAutoRefresh THEN startAutoRefresh(svc) ELSE svc)
                 EXCEPT !.last = "initialize"]
    /\ UNCHANGED <<backend, client, ui, api, notes>>

\* cleanup()
Cleanup ==
    /\ svc.constructed
    /\ svc' = [stopAutoRefresh(svc) EXCEPT !.last = "cleanup"]
    /\ UNCHANGED <<backend, client, ui, api, notes>>

\* an interval that is not cleared fires
IntervalFires(h, fails) ==
    /\ h \in svc.active
    /\ svc.ticks < MaxTicks
    /\ svc' = IntervalCallback(svc, store, fails)
    /\ UNCHANGED <<backend, client, ui, api, notes>>

SvcNext ==
    \/ \E dto \in BulkCreateDto : Receive /\ Create(dto) /\ UNCHANGED others
    \/ \E enableAutoRefresh \in BOOLEAN : Construct(enableAutoRefresh)
    \/ Initialize
    \/ Cleanup
    \/ \E h \in 1..MaxHandles, fails \in BOOLEAN : IntervalFires(h, fails)

SvcSpec == Init /\ [][SvcNext]_vars

(* --------------------------- the ApiClient ------------------------------ *)
MaxWrites == 2

\* getFromCache(key): the cached data while the entry is valid
getFromCache(a) == IF a.cache.valid THEN a.cache.data ELSE << >>

\* clearCachePattern('/products'): the list entry goes
clearCachePattern(a) == [a EXCEPT !.cache = NoApi.cache]

\* a write of this client has resolved
WriteResolved(a) == [a EXCEPT !.writes = a.writes + 1]

\* the body the client sends with its updates
ApiUpdateDto ==
    [id : {Undefined}, name : {2}, quantity : {Undefined}, version : {Undefined},
     lastModified : {Undefined}]

\* getProducts() up to its first await: a cache hit resolves at once, a
\* pending request for the key is joined, otherwise a GET /products is sent
ApiGetProducts ==
    /\ IF api.cache.valid
       THEN api' = [api EXCEPT !.returned = [data |-> getFromCache(api),
                                             stamp |-> api.cache.stamp,
                                             need |-> api.writes]]
       ELSE IF api.pending.active
       THEN api' = [api EXCEPT !.waiting = TRUE, !.need = api.writes]
       ELSE api' = [api EXCEPT !.waiting = TRUE, !.need = api.writes,
                               !.pending = [NoApi.pending EXCEPT !.active = TRUE]]
    /\ api' # api
    /\ UNCHANGED <<backend, client, ui, svc, notes>>

\* the server answers the pending GET /products: findAll()
ApiServerAnswers ==
    /\ api.pending.active /\ ~api.pending.answered
    /\ api' = [api EXCEPT !.pending.answered = TRUE,
                          !.pending.data = getProducts(store),
                          !.pending.stamp = api.writes]
    /\ UNCHANGED <<backend, client, ui, svc, notes>>

\* the response of the pending GET arrives: setCache, the promise settles
\* for every caller that awaits it, pendingRequests.delete(key); `fails` is a
\* response that is lost
ApiGetResolves(fails) ==
    /\ api.pending.active /\ api.pending.answered
    /\ api' = IF fails
              THEN [api EXCEPT !.pending = NoApi.pending, !.waiting = FALSE]
              ELSE [api EXCEPT
                       !.pending = NoApi.pending, !.waiting = FALSE,
                       !.cache = [valid |-> TRUE, data |-> api.pending.data,
                                  stamp |-> api.pending.stamp],
                       !.returned = IF api.waiting
                                    THEN [data |-> api.pending.data,
                                          stamp |-> api.pending.stamp,
                                          need |-> api.need]
                                    ELSE api.returned]
    /\ UNCHANGED <<backend, client, ui, svc, notes>>

\* the cache entry is older than its ttl
ApiCacheExpires ==
    /\ api.cache.valid
    /\ api' = clearCachePattern(api)
    /\ UNCHANGED <<backend, client, ui, svc, notes>>

\* createProduct(productData): POST /products, then the list cache is cleared
ApiCreateProduct(dto) ==
    /\ api.writes < MaxWrites
    /\ Receive /\ Create(dto)
    /\ api' = clearCachePattern(WriteResolved(api))
    /\ UNCHANGED <<bulk, client, ui, svc, notes>>

\* updateProduct(id, productData): PUT /products/:id, then the cache is cleared
ApiUpdateProduct(id, dto) ==
    /\ api.writes < MaxWrites
    /\ update(store, now, id, dto).result = "ok"
    /\ store' = update(store, now, id, dto).store
    /\ api' = clearCachePattern(WriteResolved(api))
    /\ UNCHANGED <<used, now, req, response, calls, accepted, won, bulk, client, ui,
                   svc, notes>>

\* deleteProduct(id): DELETE /products/:id, then the cache is cleared
ApiDeleteProduct(id) ==
    /\ api.writes < MaxWrites
    /\ store[id].exists
    /\ store' = [store EXCEPT ![id] = NoRow]
    /\ api' = clearCachePattern(WriteResolved(api))
    /\ UNCHANGED <<used, now, req, response, calls, accepted, won, bulk, client, ui,
                   svc, notes>>

\* updateProductWithVersionCheck(id, productData): PUT /products/:id/versioned
\* and nothing else
ApiUpdateProductWithVersionCheck(id, dto) ==
    /\ api.writes < MaxWrites
    /\ updateWithVersionCheck(store, now, id, dto).result = "ok"
    /\ store' = updateWithVersionCheck(store, now, id, dto).store
    /\ api' = WriteResolved(api)
    /\ UNCHANGED <<used, now, req, response, calls, accepted, won, bulk, client, ui,
                   svc, notes>>

ApiNext ==
    \/ ApiGetProducts
    \/ ApiServerAnswers
    \/ \E fails \in BOOLEAN : ApiGetResolves(fails)
    \/ ApiCacheExpires
    \/ \E dto \in CreateProductDto : ApiCreateProduct(dto)
    \/ \E id \in Ids, dto \in ApiUpdateDto : ApiUpdateProduct(id, dto)
    \/ \E id \in Ids : ApiDeleteProduct(id)
    \/ \E id \in Ids, dto \in ApiUpdateDto : ApiUpdateProductWithVersionCheck(id, dto)

ApiSpec == Init /\ [][ApiNext]_vars

(* ------------------------ errors and toasts ----------------------------- *)
MaxAdded == 3

\* what `${Date.now()}-${Math.random().toString(36).substr(2, 9)}` can be
GeneratedIds == 1..3

\* the ids of the entries of a list
EntryIds(entries) == {entries[k].id : k \in DOMAIN entries}

\* the reducers' ADD_ERROR / ADD_TOAST: the entry gets the id the reducer
\* generates
ReducerAdd(entries, generated, autoHide) ==
    Append(entries, [id |-> generated, autoHide |-> autoHide])

\* the reducers' REMOVE_ERROR / REMOVE_TOAST
ReducerRemove(entries, id) == SelectSeq(entries, LAMBDA e : e.id # id)

\* addError(error): errorId is generated, ADD_ERROR is dispatched and the
\* reducer generates the entry's id, a timeout is set for an autoHide error
\* with a duration, errorId is returned
AddError(errorId, generated, autoHide) ==
    /\ Len(notes.added) < MaxAdded
    /\ generated \notin EntryIds(notes.errors)
    /\ notes' = [notes EXCEPT
                    !.errors = ReducerAdd(notes.errors, generated, autoHide),
                    !.timeouts = IF autoHide THEN notes.timeouts \cup {errorId}
                                 ELSE notes.timeouts,
                    !.added = Append(notes.added,
                                     [list |-> "errors", returned |-> errorId,
                                      stored |-> generated,
                                      autoHide |-> autoHide])]
    /\ UNCHANGED <<backend, client, ui, api, svc>>

\* the auto-hide timeout of addError fires: REMOVE_ERROR with errorId
AutoHideFires(errorId) ==
    /\ errorId \in notes.timeouts
    /\ notes' = [notes EXCEPT !.errors = ReducerRemove(notes.errors, errorId),
                              !.timeouts = notes.timeouts \ {errorId}]
    /\ UNCHANGED <<backend, client, ui, api, svc>>

\* removeError(id)
RemoveError(id) ==
    /\ notes.errors # << >>
    /\ notes' = [notes EXCEPT !.errors = ReducerRemove(notes.errors, id)]
    /\ notes' # notes
    /\ UNCHANGED <<backend, client, ui, api, svc>>

\* addToast(toast): toastId is generated, ADD_TOAST is dispatched and the
\* reducer generates the entry's id, toastId is returned
AddToast(toastId, generated) ==
    /\ Len(notes.added) < MaxAdded
    /\ generated \notin EntryIds(notes.toasts)
    /\ notes' = [notes EXCEPT
                    !.toasts = ReducerAdd(notes.toasts, generated, FALSE),
                    !.added = Append(notes.added,
                                     [list |-> "toasts", returned |-> toastId,
                                      stored |-> generated,
                                      autoHide |-> FALSE])]
    /\ UNCHANGED <<backend, client, ui, api, svc>>

\* removeToast(id)
RemoveToast(id) ==
    /\ notes.toasts # << >>
    /\ notes' = [notes EXCEPT !.toasts = ReducerRemove(notes.toasts, id)]
    /\ notes' # notes
    /\ UNCHANGED <<backend, client, ui, api, svc>>

NotesNext ==
    \/ \E errorId \in GeneratedIds, generated \in GeneratedIds, autoHide \in BOOLEAN :
          AddError(errorId, generated, autoHide)
    \/ \E errorId \in GeneratedIds : AutoHideFires(errorId)
    \/ \E id \in GeneratedIds : RemoveError(id)
    \/ \E toastId \in GeneratedIds, generated \in GeneratedIds :
          AddToast(toastId, generated)
    \/ \E id \in GeneratedIds : RemoveToast(id)

NotesSpec == Init /\ [][NotesNext]_vars

(* ======================= properties of the service ====================== *)
WriteOps == {"update", "updateWithVersionCheck"}

\* this step receives a request
Arrived == calls' = calls + 1

\* this step sends the response of a request: one that ran without
\* suspending, or the suspended one resuming
Completed ==
    \/ Arrived /\ req' = req
    \/ calls' = calls /\ req.pc # "idle" /\ req'.pc = "idle"

\* this step completes an update or updateWithVersionCheck that was accepted
AcceptedWrite ==
    Completed /\ response'.op \in WriteOps /\ response'.result = "ok"

\* this step completes a request with the given failure
Failed(result) == Completed /\ response'.result = result

\* the rows this step inserts, updates or deletes
Changed == {i \in Ids : store'[i] # store[i]}

(* ------------------------------- C1 ------------------------------------- *)
\* C1: updateWithVersionCheck with a believed revision (dto.version) that
\* differs from the stored revision fails with Conflict, whatever else the
\* DTO carries, and the step in which it fails leaves the table unchanged.
StaleRevisionIsRefused ==
    /\ [](\A id \in Ids, dto \in UpdateProductVersionedDto :
            (store[id].exists /\ dto.version # Undefined
                /\ dto.version # store[id].version)
            => UpdateWithVersionCheckOutcome(store, id, dto).pc = "Conflict")
    /\ [][(Failed("Conflict") /\ response'.op = "updateWithVersionCheck")
            => store' = store]_vars

\* a stale revision has been refused
StaleRevisionWasRefused ==
    /\ response.op = "updateWithVersionCheck"
    /\ response.result = "Conflict"
    /\ response.message = "modified by another user"
    /\ store[response.id].exists

(* ------------------------------- C2 ------------------------------------- *)
\* C2: of the callers that supply the same believed revision r of a record,
\* exactly one is accepted: no two writes are persisted that were both
\* accepted against the same revision number.
OneWinnerPerRevision ==
    \A i \in Ids, r \in 1..MaxVersion : won[i][r] <= 1

(* ------------------------------- C3 ------------------------------------- *)
\* C3: the revision of a record is 1 plus the number of writes accepted for
\* it since its creation, writes that change no field value included.
RevisionCountsAcceptedWrites ==
    \A i \in Ids : store[i].exists => store[i].version = 1 + accepted[i]

(* ------------------------------- C4 ------------------------------------- *)
\* C4: an accepted update or updateWithVersionCheck addressed to id X leaves
\* every row with another id as it was (none created, none modified) and
\* leaves a row under X.
IdNeverReassigned ==
    [][AcceptedWrite =>
         /\ \A y \in Ids \ {response'.id} : store'[y] = store[y]
         /\ store'[response'.id].exists]_vars

(* ------------------------------- C5 ------------------------------------- *)
\* C5: every accepted write changes both the revision and lastModified of
\* the row it saves, in the step of the write, and a write refused by the
\* version check changes neither.
EveryAcceptedWriteBumpsBoth ==
    [][/\ (AcceptedWrite /\ store[response'.saved].exists)
          => /\ store'[response'.saved].version = store[response'.saved].version + 1
             /\ store'[response'.saved].updatedAt = now
       /\ Failed("Conflict") => store' = store]_vars

(* ------------------------------- C6 ------------------------------------- *)
\* C6: when the revision check does not fail and the DTO carries
\* lastModified, updateWithVersionCheck fails with Conflict exactly when the
\* row's updatedAt is strictly greater than it, and otherwise goes on to
\* save; for every value, 0 included.
TimestampCheckIsStrict ==
    \A id \in Ids, dto \in UpdateProductVersionedDto :
        (/\ store[id].exists
         /\ dto.version \in {Undefined, store[id].version}
         /\ dto.lastModified # Undefined)
        => LET o == UpdateWithVersionCheckOutcome(store, id, dto) IN
           IF store[id].updatedAt > dto.lastModified
           THEN o.pc = "Conflict" ELSE o.pc = "saving"

\* a write has been refused by the timestamp check
TimestampConflictReturned ==
    /\ response.op = "updateWithVersionCheck"
    /\ response.result = "Conflict"
    /\ response.message = "modified more recently on the server"

(* ------------------------------- C7 ------------------------------------- *)
\* C7: with neither version nor lastModified, updateWithVersionCheck(id, dto)
\* has the outcome, the returned product and the resulting table of
\* update(id, dto), and it is never a Conflict.
UncheckedIsPlainUpdate ==
    \A id \in Ids, dto \in UpdateProductVersionedDto :
        (dto.version = Undefined /\ dto.lastModified = Undefined)
        => /\ updateWithVersionCheck(store, now, id, dto) = update(store, now, id, dto)
           /\ updateWithVersionCheck(store, now, id, dto).result # "Conflict"

\* an updateWithVersionCheck without control fields has been accepted
UncheckedWriteAccepted ==
    /\ response.op = "updateWithVersionCheck"
    /\ response.result = "ok"
    /\ response.control = {}

(* ------------------------------- C8 ------------------------------------- *)
RowOps == WriteOps \cup {"findOne", "remove"}

\* C8: update, updateWithVersionCheck, findOne and remove called with an id
\* that has no row fail with NotFound and leave the table unchanged;
\* updateWithVersionCheck writes exactly one row when it is accepted and
\* none when it fails with NotFound or Conflict.
ExactlyOneWriteOnSuccess ==
    [][/\ (Arrived /\ req' = req /\ response'.op \in RowOps
             /\ ~store[response'.id].exists)
          => (response'.result = "NotFound" /\ store' = store)
       /\ (Failed("NotFound") \/ Failed("Conflict")) => Changed = {}
       /\ (AcceptedWrite /\ response'.op = "updateWithVersionCheck")
          => Cardinality(Changed) = 1]_vars

(* ------------------------------- C9 ------------------------------------- *)
\* the business fields the patch names hold its values, the others the old ones
Patched(old, new, dto) ==
    /\ new.name = IF dto.name # Undefined THEN dto.name ELSE old.name
    /\ new.quantity = IF dto.quantity # Undefined THEN dto.quantity ELSE old.quantity

\* C9: an accepted update or updateWithVersionCheck(id, dto) leaves record id
\* with the DTO's value in every business field the DTO names and with its
\* previous value in every other one, and the table it leaves does not
\* depend on the control fields the DTO carried.
PatchIsUnionOverRecord ==
    /\ \A id \in Ids, dto \in UpdateProductDto :
          LET r == update(store, now, id, dto) IN
          r.result = "ok" => Patched(store[id], r.store[id], dto)
    /\ \A id \in Ids, dto \in UpdateProductVersionedDto :
          LET r == updateWithVersionCheck(store, now, id, dto)
              bare == [dto EXCEPT !.version = Undefined, !.lastModified = Undefined]
          IN r.result = "ok"
             => /\ Patched(store[id], r.store[id], dto)
                /\ r.store = updateWithVersionCheck(store, now, id, bare).store

(* ------------------------------- C10 ------------------------------------ *)
\* C10: the checksum checkDataConsistency returns is the same for every
\* order in which the fetch can return the rows of the table.
ChecksumIsOrderIndependent ==
    [][(Completed /\ response'.op = "checkDataConsistency")
         => \A order \in FetchOrders(store) :
               checkDataConsistency(store, order).checksum = response'.body.checksum]_vars

(* ------------------------------- C11 ------------------------------------ *)
\* largest revision tried in the collision check (two-digit revisions included)
MaxRevision == 12

\* the table with the revision of row i set to v
WithRevision(st, i, v) == [st EXCEPT ![i].version = v]

\* C11: in every table the model reaches and for every order the fetch can
\* return, giving one row any two different revisions (all else equal) gives
\* two different checksums: the rolling hash has no collision among them.
RevisionChangesChecksum ==
    \A order \in FetchOrders(store) : \A i \in Existing(store) :
        Cardinality({checkDataConsistency(WithRevision(store, i, v), order).checksum :
                        v \in 1..MaxRevision}) = MaxRevision

\* a checksum has been returned for a table holding a row that was updated
ChecksumOfUpdatedRowReturned ==
    /\ response.op = "checkDataConsistency"
    /\ response.body.totalProducts >= 1
    /\ \E i \in Ids : store[i].exists /\ store[i].version > 1

(* ------------------------------- C18 ------------------------------------ *)
\* patch k of the batch named a row that existed when the loop reached it
BulkFound(k) == bulk.updates[k].id # Undefined /\ bulk.seen[k].exists

\* patch k failed the optimistic check against the row the loop found
BulkStale(k) ==
    /\ BulkFound(k)
    /\ \/ bulk.updates[k].version # bulk.seen[k].version
       \/ /\ bulk.updates[k].lastModified # Undefined
          /\ bulk.seen[k].updatedAt > bulk.updates[k].lastModified

\* patch k passed the check
BulkPassed(k) == BulkFound(k) /\ ~BulkStale(k)

\* the patches reached so far, in input order
BulkReached == [k \in 1..Len(bulk.seen) |-> k]

\* C18: a patch that fails the optimistic check never ends the batch; when
\* the batch returns, `updated` holds the patches whose check passed, applied,
\* in input order, and `conflicts` holds one entry for each patch whose check
\* failed, in input order, and nothing else.
StaleDoesNotStopBatch ==
    LET passed == SelectSeq(BulkReached, BulkPassed)
        stale == SelectSeq(BulkReached, BulkStale)
    IN
    /\ bulk.pc \notin {"idle", "running", "returned"}
       => ~BulkStale(Len(bulk.seen))
    /\ bulk.pc \in {"running", "returned"}
       => /\ Len(bulk.updated) = Len(passed)
          /\ Len(bulk.conflicts) = Len(stale)
          /\ \A j \in 1..Len(passed) :
                /\ bulk.updated[j].id = bulk.updates[passed[j]].id
                /\ bulk.updated[j].name = bulk.updates[passed[j]].name
          /\ \A j \in 1..Len(stale) :
                /\ bulk.conflicts[j].id = bulk.updates[stale[j]].id
                /\ bulk.conflicts[j].currentValue = bulk.seen[stale[j]].version
                /\ bulk.conflicts[j].attemptedValue = bulk.updates[stale[j]].version
    /\ bulk.pc = "returned" => Len(bulk.seen) = Len(bulk.updates)

\* a batch of three patches returned with the second one stale and the
\* first and third applied
SecondOfThreeStale ==
    /\ bulk.pc = "returned"
    /\ Len(bulk.updates) = 3
    /\ BulkPassed(1) /\ BulkStale(2) /\ BulkPassed(3)
    /\ Len(bulk.updated) = 2 /\ Len(bulk.conflicts) = 1

(* ------------------------------- C19 ------------------------------------ *)
\* C19: no patch ends the batch: whatever fails (a missing id, an id
\* without a row, a conflict), the loop goes on and the call returns
\* { updated, conflicts }, so every applied patch is reported.
BulkNeverAborts ==
    /\ bulk.pc \in {"idle", "running", "returned"}
    /\ bulk.pc = "returned"
       => Len(bulk.updated) + Len(bulk.conflicts) <= Len(bulk.updates)

(* ------------------------------- C12 ------------------------------------ *)
\* the products of a list that carry the given id
WithId(products, id) == {products[k] : k \in {j \in DOMAIN products : products[j].id = id}}

\* C12: a client product equal to the server's current row in revision,
\* lastModified and business fields gets no conflict from the server's
\* detectConflicts nor from the frontend's detector, and a list that equals
\* what a fetch returns now is reported consistent by both.
EqualCopyHasNoConflict ==
    LET fromServer == ProductsService_detectConflicts(store, client.products)
        fromClient == DataConsistencyService_detectConflicts(client.products,
                                                             getProducts(store))
    IN
    /\ \A k \in DOMAIN client.products :
          LET c == client.products[k] IN
          (store[c.id].exists /\ c = ToEntity(c.id, store[c.id]))
          => /\ \A j \in DOMAIN fromServer : fromServer[j].id # c.id
             /\ \A j \in DOMAIN fromClient : fromClient[j].productId # c.id
    /\ client.products \in {getProducts(store), refreshData(store)}
       => (fromServer = << >> /\ fromClient = << >>)

\* a check right after a fetch found the frontend's list consistent
FreshSnapshotConsistent ==
    /\ client.op = "checkConsistency" /\ client.isConsistent
    /\ Len(client.products) >= 1
    /\ client.products = refreshData(store)

(* ------------------------------- C13 ------------------------------------ *)
\* C13: for a client product whose id has no row on the server, the
\* server's detectConflicts reports exactly one conflict, with field
\* `existence`, current value null and attempted value 'exists', and so does
\* the frontend's detector.
DeletedIdReportedOnce ==
    LET fromServer == ProductsService_detectConflicts(store, client.products)
        fromClient == DataConsistencyService_detectConflicts(client.products,
                                                             getProducts(store))
    IN
    \A k \in DOMAIN client.products :
        LET c == client.products[k] IN
        ~store[c.id].exists
        => /\ Cardinality({j \in DOMAIN fromServer : fromServer[j].id = c.id}) = 1
           /\ \A j \in DOMAIN fromServer :
                 fromServer[j].id = c.id
                 => fromServer[j].conflicts
                      = <<[field |-> "existence", currentValue |-> Null,
                           attemptedValue |-> Exists]>>
           /\ Cardinality({j \in DOMAIN fromClient :
                              /\ fromClient[j].productId = c.id
                              /\ fromClient[j].field = "existence"}) = 1

(* ------------------------------- C14 ------------------------------------ *)
\* C14: a resolveConflicts call whose strategy is server-wins, merge or
\* prompt-user changes no row and sends no write, and with server-wins it
\* returns the serverProducts it was given.
OnlyClientWinsWrites ==
    /\ [][(client' # client /\ client'.op = "resolveConflicts"
             /\ client'.strategy # "client-wins")
            => (store' = store /\ client'.writes = 0)]_vars
    /\ []((client.pc = "resolved" /\ client.strategy = "server-wins")
            => client.resolved = client.serverProducts)

\* server-wins resolved a list that had conflicts
ServerWinsResolved ==
    /\ client.pc = "resolved" /\ client.strategy = "server-wins"
    /\ client.conflicts # << >>
    /\ client.resolved # client.products

FailedWriteKeepsOneEntryPerRecord ==
    (client.pc = "resolved" /\ client.strategy = "client-wins")
    => /\ Len(client.outcomes) = Len(client.products)
       /\ Len(client.resolved) = Len(client.products)
       /\ \A k \in DOMAIN client.products :
             LET c == client.products[k]
                 conflicted == c.id \in ConflictedProductIds(client.conflicts)
             IN
             /\ ~conflicted => (client.outcomes[k] = "unchanged"
                                /\ client.resolved[k] = c)
             /\ conflicted => client.outcomes[k] \in {"written", "failed"}
             /\ client.outcomes[k] = "failed"
                => client.resolved[k] \in WithId(client.serverProducts, c.id)

(* ------------------------------- C17 ------------------------------------ *)
\* what merge owes for one id: the client's or the server's whole record
MergedFor(id) ==
    LET cs == WithId(client.products, id)
        ss == WithId(client.serverProducts, id)
    IN
    IF ss = {} THEN cs
    ELSE IF cs = {} THEN ss
    ELSE IF \E c \in cs, sp \in ss : sp.updatedAt > c.updatedAt THEN ss ELSE cs

\* C17: a merge resolution returns exactly one record per id of the union
\* of the client's and the server's ids: the server's whole record where its
\* lastModified is strictly newer than the client's, the client's whole
\* record otherwise, and the only record there is for an id one side lacks.
MergeTakesNewerWholeRecord ==
    (client.pc = "resolved" /\ client.strategy = "merge")
    => /\ \A id \in Ids : WithId(client.resolved, id) = MergedFor(id)
       /\ \A k \in DOMAIN client.resolved : client.resolved[k].id \in Ids
       /\ Len(client.resolved) = Cardinality({id \in Ids : MergedFor(id) # {}})

\* a merge kept the client's edited record against a server record of the
\* same lastModified
MergeKeptClientOnTie ==
    /\ client.pc = "resolved" /\ client.strategy = "merge"
    /\ \E id \in Ids :
          \E c \in WithId(client.products, id), sp \in WithId(client.serverProducts, id) :
             c.updatedAt = sp.updatedAt /\ c # sp /\ c \in WithId(client.resolved, id)

(* ------------------------------- C20 ------------------------------------ *)
\* C20: when an optimistically applied change fails for good (the
\* dashboard's delete fails, or every attempt of performOptimisticUpdate has
\* failed), the step that ends the operation leaves on display the list that
\* was shown before the optimistic change was applied.
FailedChangeIsReverted ==
    [][(ui.pc \in {"deleting", "updating"} /\ ui'.pc = "idle"
          /\ ui'.outcome = "failed")
         => ui'.products = ui.shown]_vars

\* every attempt of performOptimisticUpdate failed after a reload had
\* replaced the list, and the list of before the change is on display
AllAttemptsFailedAfterReload ==
    /\ ui.pc = "idle" /\ ui.outcome = "failed" /\ ui.retries = 0
    /\ ui.originalProducts # << >>
    /\ ui.reloaded /\ ~ui.loading
    /\ ui.products = ui.shown
    /\ ui.products # FilterOut(ui.shown, ui.productId)

(* ------------------------------- C21 ------------------------------------ *)
\* C21: for a client product whose updatedAt is equal to or later than the
\* updatedAt of the server's row, neither the server's detectConflicts nor
\* the frontend's detector reports a conflict of any kind, whatever the
\* client's revision and field values are.
NotNewerServerNeverConflicts ==
    LET fromServer == ProductsService_detectConflicts(store, client.products)
        fromClient == DataConsistencyService_detectConflicts(client.products,
                                                             getProducts(store))
    IN
    \A k \in DOMAIN client.products :
        LET c == client.products[k] IN
        (store[c.id].exists /\ c.updatedAt >= store[c.id].updatedAt)
        => /\ \A j \in DOMAIN fromClient : fromClient[j].productId # c.id
           /\ \A j \in DOMAIN fromServer : fromServer[j].id # c.id

(* ------------------------------- C22 ------------------------------------ *)
\* the business fields the model keeps, and the value of one in a product
BusinessFields == {"name", "quantity"}
FieldOf(p, field) == IF field = "name" THEN p.name ELSE p.quantity

\* C22: for a client product whose server row has a strictly later
\* updatedAt, each detector emits exactly one conflict for every business
\* field whose client value differs from the server's and none for a field
\* whose values are equal.
OneConflictPerDifferingField ==
    LET fromServer == ProductsService_detectConflicts(store, client.products)
        fromClient == DataConsistencyService_detectConflicts(client.products,
                                                             getProducts(store))
    IN
    \A k \in DOMAIN client.products :
        LET c == client.products[k] IN
        (store[c.id].exists /\ store[c.id].updatedAt > c.updatedAt)
        => \A field \in BusinessFields :
              LET owed == IF FieldOf(c, field) # FieldOf(store[c.id], field)
                          THEN 1 ELSE 0
              IN
              /\ Cardinality({j \in DOMAIN fromClient :
                                 /\ fromClient[j].productId = c.id
                                 /\ fromClient[j].field = field}) = owed
              /\ \A j \in DOMAIN fromServer :
                    fromServer[j].id = c.id
                    => Cardinality({i \in DOMAIN fromServer[j].conflicts :
                                       fromServer[j].conflicts[i].field = field}) = owed

(* ------------------------------- C23 ------------------------------------ *)
\* C23: a call made through the consistency layer issues the caller's
\* server operation at most once; a failure goes back to the caller without
\* the operation being issued again.
OperationIssuedAtMostOnce == ui.attempts <= 1

(* ------------------------------- C25 ------------------------------------ *)
\* C25: when performOptimisticUpdate resolves successfully rollback has
\* never been invoked during the call.
SuccessWasNeverRolledBack ==
    (ui.via = "performOptimisticUpdate" /\ ui.pc = "idle" /\ ui.outcome = "ok")
    => ui.rollbacks = 0

(* ------------------------------- C30 ------------------------------------ *)
\* C30: performOptimisticUpdate terminates; with maxRetries = k it invokes
\* the operation at most k + 1 times, re-invokes it only after a failed
\* attempt, invokes rollback once per failed attempt, ends at the first
\* success, and after k + 1 failures rejects with the last attempt's error.
PerformOptimisticUpdateTerminates ==
    /\ [](ui.via = "performOptimisticUpdate"
          => /\ ui.attempts <= maxRetries + 1
             /\ ui.pc = "updating"
                => (ui.rollbacks = ui.attempts - 1
                    /\ ui.attempts = maxRetries - ui.retries + 1)
             /\ (ui.pc = "idle" /\ ui.outcome = "ok")
                => ui.rollbacks = ui.attempts - 1
             /\ (ui.pc = "idle" /\ ui.outcome = "failed")
                => /\ ui.attempts = maxRetries + 1
                   /\ ui.rollbacks = ui.attempts
                   /\ ui.thrown = ui.error /\ ui.thrown # "none")
    /\ [][(ui.pc = "updating" /\ ui'.attempts # ui.attempts)
            => /\ ui'.attempts = ui.attempts + 1
               /\ ui'.rollbacks = ui.rollbacks + 1
               /\ ui'.error # "none"
               /\ store' = store]_vars
    /\ [][(ui.pc = "updating" /\ store' # store /\ ~store'[ui.productId].exists)
            => (ui'.pc = "idle" /\ ui'.outcome = "ok") \/ ui' = ui]_vars
    /\ (ui.pc = "updating") ~> (ui.pc = "idle")

\* the call rejected with the 404 of its last attempt
RejectedWithLastError ==
    /\ ui.via = "performOptimisticUpdate" /\ ui.pc = "idle"
    /\ ui.outcome = "failed" /\ ui.attempts = maxRetries + 1
    /\ ui.thrown = "NotFound"

(* ------------------------------- C28 ------------------------------------ *)
\* C28: refreshData returns the products in the order the server sent
\* them, createSnapshot having left the array it was given as it was.
RefreshKeepsServerOrder ==
    /\ [][(~client.loaded /\ client'.loaded)
            => client'.products = getProducts(store)]_vars
    /\ [][(client.pc = "idle" /\ client'.pc = "refreshed")
            => client'.serverProducts = getProducts(store)]_vars

(* ------------------------------- C24 ------------------------------------ *)
\* C24: a tick of the auto-refresh interval whose refreshData fails leaves
\* the interval and the refreshTimer as they were, and every tick runs
\* refreshData, whatever the earlier ticks did; only cleanup (or a restart by
\* initialize) clears an interval.
FailedTickKeepsPolling ==
    /\ [][svc'.ticks # svc.ticks
            => /\ svc'.ticks = svc.ticks + 1
               /\ svc'.refreshes = svc.refreshes + 1
               /\ svc'.active = svc.active
               /\ svc'.refreshTimer = svc.refreshTimer]_vars
    /\ [][(\E h \in svc.active : h \notin svc'.active)
            => svc'.last \in {"cleanup", "initialize"}]_vars
    /\ [](svc.refreshes = svc.ticks /\ svc.failures <= svc.ticks)

\* a tick succeeded after an earlier tick of the same interval had failed
TickAfterFailedTick ==
    /\ svc.failures >= 1 /\ svc.ticks > svc.failures
    /\ svc.last = "tick" /\ ~svc.lastFailed
    /\ svc.handles = 1 /\ svc.active = {1}

(* ------------------------------- C29 ------------------------------------ *)
\* C29: after any sequence of initialize and cleanup calls at most one
\* interval is active and it is the one refreshTimer holds, none is active
\* when enableAutoRefresh is false, and none is active after cleanup.
AtMostOneRefreshTimer ==
    /\ Cardinality(svc.active) <= 1
    /\ svc.active = IF svc.refreshTimer = 0 THEN {} ELSE {svc.refreshTimer}
    /\ ~svc.enableAutoRefresh => svc.active = {}
    /\ svc.last = "cleanup" => svc.active = {}

\* initialize ran a second time while an interval was active
InitializedTwice ==
    /\ svc.enableAutoRefresh /\ svc.last = "initialize"
    /\ svc.handles = 2 /\ svc.active = {2}

(* ------------------------------- C26 ------------------------------------ *)
\* C26: a getProducts call made after a write of this client has resolved
\* never resolves with data the server produced before that write.
NeverStaleAfterWrite == api.returned.stamp >= api.returned.need

(* ------------------------------- C27 ------------------------------------ *)
\* C27: the id addError or addToast returns is the id of the entry it
\* added, and once the auto-hide timeout of an error has fired that entry is
\* no longer in state.errors.
ReturnedIdIdentifiesEntry ==
    \A k \in DOMAIN notes.added :
        /\ notes.added[k].returned = notes.added[k].stored
        /\ (notes.added[k].list = "errors" /\ notes.added[k].autoHide
            /\ notes.added[k].returned \notin notes.timeouts)
           => notes.added[k].stored \notin EntryIds(notes.errors)

====
